---- MODULE Spec2Model ----
(***************************************************************************)
(* Model of the honest-impressions Slack bot (src/index.js): the messages  *)
(* table, the Slack workspace the bot posts into, and the handlers         *)
(* reply_impression, impression_id, accept_impression and deny_impression, *)
(* each cut into steps at its awaits so that overlapping invocations       *)
(* interleave the way the Node event loop lets them.                       *)
(***************************************************************************)
EXTENDS Integers, Sequences, FiniteSets, Bags, TLC

\* ------------------------------------------------------------------ bounds
\* Handler invocations (platform events) in one run.
MaxEvents == 4
\* Database statements / platform calls that fail in one run.
MaxFailures == 1
\* Handler invocations that overlap.
MaxInFlight == 2

\* ------------------------------------------------------- program constants
NULL == "NULL"
\* SQL NULL / JS undefined for a string column held as a sequence of characters.
NoTs == <<>>

\* process.env.REVIEW_CHANNEL_ID (required, any id distinct from the others)
REVIEW_CHANNEL_ID == "CREVIEW"
\* the fallback of process.env.HONEST_IMPRESSIONS_CHANNEL_ID
DefaultChannel == "C029QJD8M0D"
\* the channel ids the submit shortcut accepts
PermittedChannels == {"C02A6BRM2JD", "G01PPVD14Q0", "C08TS367V2T"}
\* the identity that may submit from any channel
OverrideUsers == {"UJYDFQ2QL"}
\* the identities that may use the delete shortcut
AdminUsers == {"UJYDFQ2QL", "UHFEGV147", "U01D6FYHLUW", "UM4BAKT6U", "U0128N09Q8Y"}

\* ------------------------------------------------------------ input sets
\* Submitters: an ordinary user, a deny-listed user, the override identity.
Submitters == {"U1", "U2", "UJYDFQ2QL"}
\* One reviewer accepts, the other denies.
Clicks == {<<"accept", "R1">>, <<"deny", "R2">>}
\* The channels holding a message to reply to: a channel of the permitted list and
\* a channel outside it (message 1 and message 2 of the workspace).
Contexts == <<"C02A6BRM2JD", "C0HONEST">>
\* Submit intents <<user, message>>: an ordinary user in both channels, the
\* deny-listed user in the permitted channel, the override identity outside it.
Intents == {<<"U1", 1>>, <<"U1", 2>>, <<"U2", 1>>, <<"UJYDFQ2QL", 2>>}
Texts == {"nice job"}
\* Deployments <<HONEST_IMPRESSIONS_CHANNEL_ID, banList.json>>: the variable unset;
\* the variable naming the second channel, and the override identity deny-listed.
Deployments == {<<NULL, {"U2"}>>, <<"C0HONEST", {"U2", "UJYDFQ2QL"}>>}
\* A button value that names no row.
StaleValue == <<"9", "9", "9", "9">>

\* ------------------------------------------------------------ pure helpers
Digit(d) == CASE d = 0 -> "0" [] d = 1 -> "1" [] d = 2 -> "2" [] d = 3 -> "3"
              [] d = 4 -> "4" [] d = 5 -> "5" [] d = 6 -> "6" [] d = 7 -> "7"
              [] d = 8 -> "8" [] d = 9 -> "9"

DigitVal(c) == CASE c = "0" -> 0 [] c = "1" -> 1 [] c = "2" -> 2 [] c = "3" -> 3
                 [] c = "4" -> 4 [] c = "5" -> 5 [] c = "6" -> 6 [] c = "7" -> 7
                 [] c = "8" -> 8 [] c = "9" -> 9 [] OTHER -> -1

\* Number.prototype.toString() of a non-negative integer, as its decimal digits.
RECURSIVE toString(_)
toString(n) == IF n < 10 THEN <<Digit(n)>> ELSE toString(n \div 10) \o <<Digit(n % 10)>>

\* parseInt of a string of decimal digits (-1 stands for NaN).
RECURSIVE parseIntAcc(_, _)
parseIntAcc(s, acc) ==
    IF s = <<>> THEN acc
    ELSE IF DigitVal(Head(s)) < 0 THEN acc
    ELSE parseIntAcc(Tail(s), acc * 10 + DigitVal(Head(s)))

parseInt(s) == IF s = <<>> \/ DigitVal(Head(s)) < 0 THEN -1 ELSE parseIntAcc(s, 0)

\* String.prototype.split(sep) on a string held as a sequence of tokens.
RECURSIVE splitAcc(_, _, _)
splitAcc(s, sep, cur) ==
    IF s = <<>> THEN <<cur>>
    ELSE IF Head(s) = sep THEN <<cur>> \o splitAcc(Tail(s), sep, <<>>)
    ELSE splitAcc(Tail(s), sep, Append(cur, Head(s)))

split(s, sep) == splitAcc(s, sep, <<>>)

\* `${body.message_ts}|${body.channel.id}`
privateMetadata(message_ts, channel) == message_ts \o <<"|">> \o <<channel>>

\* const [a, b] = array : a missing element is undefined
Elem(parts, i) == IF i <= Len(parts) THEN parts[i] ELSE NoTs

\* crypto.createHash("md5").update(id).digest("hex"), for the identities of the model
md5(id) ==
    CASE id = "U1" ->
           <<"f","8","9","4","1","2","c","1","1","b","d","c","0","a","b","4",
             "4","f","9","9","f","9","2","d","5","e","9","a","3","c","5","e">>
      [] id = "U2" ->
           <<"4","6","8","4","8","2","1","4","4","8","f","0","a","e","2","4",
             "3","7","3","1","2","d","a","e","c","e","9","d","1","c","d","9">>
      [] id = "UJYDFQ2QL" ->
           <<"4","5","9","a","c","4","6","4","8","f","8","8","5","f","d","c",
             "6","8","1","3","0","d","c","3","a","5","3","e","1","a","4","d">>

\* String.prototype.substring(a, b)
substring(s, a, b) == SubSeq(s, a + 1, IF b <= Len(s) THEN b ELSE Len(s))

\* ------------------------------------------------------------------ state
VARIABLES
    messages,    \* the messages table: row id |-> row (ids are 1..Len)
    clock,       \* the database clock behind NOW() / CURRENT_TIMESTAMP
    slack,       \* every message of the workspace, in posting order; ts = toString(index)
    ephemerals,  \* private notices delivered (a bag)
    views,       \* modals opened and not yet submitted (a bag)
    handlers,    \* every handler invocation with its locals (a bag)
    failures,    \* failed statements / calls so far
    env,         \* process.env.HONEST_IMPRESSIONS_CHANNEL_ID
    banList      \* banList.json

vars == <<messages, clock, slack, ephemerals, views, handlers, failures, env, banList>>

NoBlocks == [type |-> "none"]

\* A message of the workspace; `by` and `of` record the handler kind that posted
\* it and the row it was posted for.
Message(channel, thread_ts, author, text, blocks, by, of) ==
    [channel |-> channel, thread_ts |-> thread_ts, author |-> author,
     text |-> text, blocks |-> blocks, deleted |-> FALSE, by |-> by, of |-> of]

\* The review card of sendToReviewChannel: fingerprint prefix, text, two buttons
\* that both carry messageId.toString().
PendingCard(message, hashedUser, messageId) ==
    [type |-> "pending", from |-> substring(hashedUser, 0, 8), message |-> message,
     value |-> toString(messageId)]

\* A card left in the review channel by a run against a database that has since
\* been reset: its buttons name a row that does not exist.
LegacyCard ==
    Message(REVIEW_CHANNEL_ID, NoTs, "bot", "old impression",
            [type |-> "pending", from |-> substring(md5("U1"), 0, 8),
             message |-> "old impression", value |-> StaleValue],
            "view", parseInt(StaleValue))

Init ==
    /\ messages = <<>>
    /\ clock = 1
    /\ slack = [i \in 1..Len(Contexts) |->
                  Message(Contexts[i], NoTs, "human", "impress me", NoBlocks, NULL, 0)]
               \o <<LegacyCard>>
    /\ ephemerals = EmptyBag
    /\ views = EmptyBag
    /\ handlers = EmptyBag
    /\ failures = 0
    /\ \E d \in Deployments : env = d[1] /\ banList = d[2]

\* A handler invocation and its locals. A handler runs from the event to its first
\* await in one turn of the event loop, and that await is `await ack()`: the
\* invocation is recorded once its acknowledgment has completed.
Handler(kind, user, channel, ts, value, meta, text) ==
    [kind |-> kind, pc |-> "body", user |-> user, channel |-> channel, ts |-> ts,
     value |-> value, meta |-> meta, text |-> text,
     acked |-> TRUE, rows |-> <<>>, messageId |-> 0, channelId |-> NULL,
     resultTs |-> NoTs, wrote |-> FALSE, error |-> NULL, uncaught |-> FALSE,
     calls |-> <<"ack">>]

H == BagToSet(handlers)

IsInFlight(hd) == hd.pc # "done"

\* The invocations that have not returned yet
InFlight == [hd \in {x \in H : IsInFlight(x)} |-> handlers[hd]]

\* The platform delivers another event.
Arrives == BagCardinality(handlers) < MaxEvents /\ BagCardinality(InFlight) < MaxInFlight

Start(hd) == handlers' = handlers (+) SetToBag({hd})

\* The record hd with pc and some locals changed and one more call logged.
After(hd, pc, call, changes) ==
    [f \in DOMAIN hd |->
       IF f = "pc" THEN pc
       ELSE IF f = "calls" THEN Append(hd.calls, call)
       ELSE IF f \in DOMAIN changes THEN changes[f]
       ELSE hd[f]]

\* One invocation moves on.
Goto(hd, pc, call, changes) ==
    handlers' = (handlers (-) SetToBag({hd})) (+) SetToBag({After(hd, pc, call, changes)})

NoChange == [x \in {} |-> 0]

\* A statement or call either succeeds or, within the failure budget, throws.
Succeeds(ok) ==
    /\ ok \in BOOLEAN
    /\ IF ok THEN failures' = failures
             ELSE failures < MaxFailures /\ failures' = failures + 1

\* A call that the platform refuses whenever its target is gone.
SucceedsIf(ok, possible) ==
    /\ ok \in BOOLEAN
    /\ ok => possible
    /\ IF ok \/ ~possible THEN failures' = failures
                           ELSE failures < MaxFailures /\ failures' = failures + 1

Ts(i) == toString(i)
Visible(i) == i \in DOMAIN slack /\ ~slack[i].deleted

\* chat.postEphemeral({channel, user, text}) delivered
Ephemeral(kind, channel, user, text) ==
    [channel |-> channel, user |-> user, text |-> text, by |-> kind]

Notify(ok, e) == ephemerals' = IF ok THEN ephemerals (+) SetToBag({e}) ELSE ephemerals

\* The joined string of a one-token part (a channel id); anything else is no id.
Atom(part) == IF Len(part) = 1 THEN part[1] ELSE "INVALID"

\* ---------------------------------------------------------------- events
\* A user submits an open modal.
ViewSubmission(v, text) ==
    /\ Arrives
    /\ BagIn(v, views)
    /\ views' = views (-) SetToBag({v})
    /\ Start(Handler("view", v.user, NULL, NoTs, NoTs, v.private_metadata, text))
    /\ UNCHANGED <<messages, clock, slack, ephemerals, failures, env, banList>>

\* A reviewer clicks a button of a review card that still shows its buttons.
DecisionClick(kind, r, m) ==
    /\ Arrives
    /\ kind \in {"accept", "deny"}
    /\ Visible(m) /\ slack[m].blocks.type = "pending"
    /\ Start(Handler(kind, r, slack[m].channel, Ts(m), slack[m].blocks.value, NoTs, NULL))
    /\ UNCHANGED <<messages, clock, slack, ephemerals, views, failures, env, banList>>

\* ------------------------------------------------------ reply_impression
\* IsBanned with the override identity exempted from the deny-list
IsBannedUnlessOverride(user) == user \in banList /\ user \notin OverrideUsers

\* banList.includes(body.user.id)
IsBanned(user) == user \in banList

\* ChannelRefused with the negation of the permitted-list test dropped
ChannelRefusedNoNegation(user, channel) ==
    /\ channel \in PermittedChannels
    /\ ~(env = channel)
    /\ user \notin OverrideUsers

\* the channel gate of the submit shortcut
ChannelRefused(user, channel) ==
    /\ channel \notin PermittedChannels
    /\ ~(env = channel)
    /\ user \notin OverrideUsers

\* A user picks the "reply_impression" shortcut on a message: the gates, then the
\* one outbound call of the handler, which nothing catches when it throws. The
\* handler reads only the configuration, so it is taken in one step.
ReplyShortcut(u, m) ==
    LET channel == slack[m].channel
        refused == IsBanned(u) \/ ChannelRefused(u, channel)
        call == IF refused THEN "chat.postEphemeral" ELSE "views.open"
    IN
    /\ Arrives
    /\ u \in Submitters
    /\ Visible(m) /\ slack[m].author = "human"
    /\ \E ok \in BOOLEAN :
         /\ Succeeds(ok)
         /\ Notify(ok /\ refused,
                   Ephemeral("reply", channel, u,
                             IF IsBanned(u) THEN <<"not allowed">> ELSE <<"post in channel">>))
         /\ views' =
              IF ok /\ ~refused
              THEN views (+) SetToBag({[user |-> u,
                                        private_metadata |-> privateMetadata(Ts(m), channel)]})
              ELSE views
         /\ Start([Handler("reply", u, channel, Ts(m), NoTs, NoTs, NULL)
                     EXCEPT !.pc = "done", !.uncaught = ~ok, !.calls = <<"ack", call>>])
    /\ UNCHANGED <<messages, clock, slack, env, banList>>

\* -------------------------------------------------- impression_id (form)
\* SQL NULL of the reviewed_at column
NoTime == 0

\* INSERT INTO messages (user_hash, message, status, thread_ts, channel_id);
\* the other columns take their defaults.
NewRow(userHash, message, status, threadTs, channelId) ==
    [user_hash |-> userHash, message |-> message, status |-> status,
     created_at |-> clock, reviewed_at |-> NoTime, review_message_ts |-> NoTs,
     thread_ts |-> threadTs, channel_id |-> channelId]

\* The locals computed after the ack, then the INSERT ... RETURNING id.
ViewInsert(hd) ==
    LET userHash == md5(hd.user)
        parts == split(hd.meta, "|")
        threadTs == Elem(parts, 1)
        channelId == Atom(Elem(parts, 2))
    IN
    /\ hd.kind = "view" /\ hd.pc = "body"
    /\ \E ok \in BOOLEAN :
         /\ Succeeds(ok)
         /\ IF ok
            THEN /\ messages' = Append(messages,
                                       NewRow(userHash, hd.text, "pending", threadTs, channelId))
                 /\ clock' = clock + 1
                 /\ Goto(hd, "post", "db.insert",
                         [channelId |-> channelId, messageId |-> Len(messages) + 1])
            ELSE /\ UNCHANGED <<messages, clock>>
                 /\ Goto(hd, "catch", "db.insert",
                         [channelId |-> channelId, error |-> "db error"])
    /\ UNCHANGED <<slack, ephemerals, views, env, banList>>

\* sendToReviewChannel, first await: chat.postMessage of the card
ViewPostCard(hd) ==
    /\ hd.kind = "view" /\ hd.pc = "post"
    /\ \E ok \in BOOLEAN :
         /\ Succeeds(ok)
         /\ IF ok
            THEN /\ slack' = Append(slack,
                        Message(REVIEW_CHANNEL_ID, NoTs, "bot", hd.text,
                                PendingCard(hd.text, md5(hd.user), hd.messageId),
                                "view", hd.messageId))
                 /\ Goto(hd, "setref", "chat.postMessage", [resultTs |-> Ts(Len(slack) + 1)])
            ELSE /\ slack' = slack
                 /\ Goto(hd, "catch", "chat.postMessage", [error |-> "platform error"])
    /\ UNCHANGED <<messages, clock, ephemerals, views, env, banList>>

\* SetReviewRef storing the card's ts in the thread_ts column
SetReviewRefInThreadColumn(ts, id) ==
    IF id \in DOMAIN messages
    THEN [messages EXCEPT ![id].thread_ts = ts]
    ELSE messages

\* SetReviewRef without its WHERE clause
SetReviewRefEveryRow(ts, id) ==
    [r \in DOMAIN messages |-> [messages[r] EXCEPT !.review_message_ts = ts]]

\* UPDATE messages SET review_message_ts = $1 WHERE id = $2
SetReviewRef(ts, id) ==
    IF id \in DOMAIN messages
    THEN [messages EXCEPT ![id].review_message_ts = ts]
    ELSE messages

\* sendToReviewChannel, second await
ViewSetRef(hd) ==
    /\ hd.kind = "view" /\ hd.pc = "setref"
    /\ \E ok \in BOOLEAN :
         /\ Succeeds(ok)
         /\ IF ok
            THEN /\ messages' = SetReviewRef(hd.resultTs, hd.messageId)
                 /\ Goto(hd, "confirm", "db.update", NoChange)
            ELSE /\ messages' = messages
                 /\ Goto(hd, "catch", "db.update", [error |-> "db error"])
    /\ UNCHANGED <<clock, slack, ephemerals, views, env, banList>>

\* the confirmation to the submitter, still inside the try
ViewConfirm(hd) ==
    /\ hd.kind = "view" /\ hd.pc = "confirm"
    /\ \E ok \in BOOLEAN :
         /\ Succeeds(ok)
         /\ Notify(ok, Ephemeral("view", hd.channelId, hd.user, <<"submitted for review">>))
         /\ IF ok THEN Goto(hd, "done", "chat.postEphemeral", NoChange)
                  ELSE Goto(hd, "catch", "chat.postEphemeral", [error |-> "platform error"])
    /\ UNCHANGED <<messages, clock, slack, views, env, banList>>

\* catch: the failure notice, whose own failure is swallowed
ViewCatch(hd) ==
    /\ hd.kind = "view" /\ hd.pc = "catch"
    /\ \E ok \in BOOLEAN :
         /\ Succeeds(ok)
         /\ Notify(ok, Ephemeral("view", hd.channelId, hd.user, <<"Failed to submit">>))
         /\ Goto(hd, "done", "chat.postEphemeral", NoChange)
    /\ UNCHANGED <<messages, clock, slack, views, env, banList>>

\* ------------------------------------------- accept_impression / deny_impression
\* SELECT * FROM messages WHERE id = $1
Select(id) == IF id \in DOMAIN messages THEN <<messages[id]>> ELSE <<>>

\* SetStatus without the reviewed_at column
SetStatusOnly(status, id) ==
    IF id \in DOMAIN messages
    THEN [messages EXCEPT ![id].status = status]
    ELSE messages

\* UPDATE messages SET status = $1, reviewed_at = NOW() WHERE id = $2
SetStatus(status, id) ==
    IF id \in DOMAIN messages
    THEN [messages EXCEPT ![id].status = status, ![id].reviewed_at = clock]
    ELSE messages

\* process.env.HONEST_IMPRESSIONS_CHANNEL_ID || "C029QJD8M0D"
RelayChannel == IF env # NULL THEN env ELSE DefaultChannel

\* the message a ts names
Target(ts) == parseInt(ts)

\* DecisionSelect without the check of result.rows.length
DecisionSelectNoCheck(hd) ==
    LET messageId == parseInt(hd.value) IN
    /\ hd.kind \in {"accept", "deny"} /\ hd.pc = "body"
    /\ \E ok \in BOOLEAN :
         /\ Succeeds(ok)
         /\ IF ~ok
            THEN Goto(hd, "catch", "db.select", [messageId |-> messageId, error |-> "db error"])
            ELSE Goto(hd, "update", "db.select",
                      [messageId |-> messageId, rows |-> Select(messageId)])
    /\ UNCHANGED <<messages, clock, slack, ephemerals, views, env, banList>>

\* const messageId = parseInt(...), then the SELECT and the check of result.rows
DecisionSelect(hd) ==
    LET messageId == parseInt(hd.value) IN
    /\ hd.kind \in {"accept", "deny"} /\ hd.pc = "body"
    /\ \E ok \in BOOLEAN :
         /\ Succeeds(ok)
         /\ IF ~ok
            THEN Goto(hd, "catch", "db.select", [messageId |-> messageId, error |-> "db error"])
            ELSE IF Len(Select(messageId)) = 0
            THEN Goto(hd, "catch", "db.select",
                      [messageId |-> messageId, error |-> "Message not found"])
            ELSE Goto(hd, "update", "db.select",
                      [messageId |-> messageId, rows |-> Select(messageId)])
    /\ UNCHANGED <<messages, clock, slack, ephemerals, views, env, banList>>

\* Update status to accepted
AcceptUpdate(hd) ==
    /\ hd.kind = "accept" /\ hd.pc = "update"
    /\ \E ok \in BOOLEAN :
         /\ Succeeds(ok)
         /\ IF ok
            THEN /\ messages' = SetStatus("accepted", hd.messageId)
                 /\ clock' = clock + 1
                 /\ Goto(hd, "relay", "db.update", [wrote |-> TRUE])
            ELSE /\ UNCHANGED <<messages, clock>>
                 /\ Goto(hd, "catch", "db.update", [error |-> "db error"])
    /\ UNCHANGED <<slack, ephemerals, views, env, banList>>

\* Relay with the "From" prefix of the review card attached
RelayWithFingerprint(hd, messageData) ==
    Message(RelayChannel, messageData.thread_ts, "bot", messageData.message,
            [type |-> "none", from |-> substring(messageData.user_hash, 0, 8)],
            hd.kind, hd.messageId)

\* the message of the relay: channel, thread_ts and text of chat.postMessage
Relay(hd, messageData) ==
    Message(RelayChannel, messageData.thread_ts, "bot", messageData.message, NoBlocks,
            hd.kind, hd.messageId)

\* Post to the honest impressions channel
AcceptRelay(hd) ==
    /\ hd.kind = "accept" /\ hd.pc = "relay"
    /\ \E ok \in BOOLEAN :
         /\ Succeeds(ok)
         /\ IF ok
            THEN /\ slack' = Append(slack, Relay(hd, hd.rows[1]))
                 /\ Goto(hd, "edit", "chat.postMessage", NoChange)
            ELSE /\ slack' = slack
                 /\ Goto(hd, "catch", "chat.postMessage", [error |-> "platform error"])
    /\ UNCHANGED <<messages, clock, ephemerals, views, env, banList>>

\* chat.update of the card named by body.message.ts: one section, no buttons
EditCard(hd, decision) ==
    LET m == Target(hd.ts)
        messageData == hd.rows[1]
    IN
    \E ok \in BOOLEAN :
      /\ SucceedsIf(ok, Visible(m) /\ slack[m].channel = hd.channel /\ slack[m].author = "bot")
      /\ IF ok
         THEN /\ slack' = [slack EXCEPT ![m].blocks =
                             [type |-> decision, message |-> messageData.message,
                              user |-> hd.user]]
              /\ Goto(hd, "done", "chat.update", NoChange)
         ELSE /\ slack' = slack
              /\ Goto(hd, "catch", "chat.update", [error |-> "platform error"])

\* Update the review message (accept)
AcceptEdit(hd) ==
    /\ hd.kind = "accept" /\ hd.pc = "edit"
    /\ EditCard(hd, "accepted")
    /\ UNCHANGED <<messages, clock, ephemerals, views, env, banList>>

\* DenyUpdate followed by the relay of the accept handler
DenyUpdateRelays(hd) ==
    /\ hd.kind = "deny" /\ hd.pc = "update"
    /\ \E ok \in BOOLEAN :
         /\ Succeeds(ok)
         /\ IF ok
            THEN /\ messages' = SetStatus("denied", hd.messageId)
                 /\ clock' = clock + 1
                 /\ slack' = Append(slack, Relay(hd, hd.rows[1]))
                 /\ Goto(hd, "edit", "db.update", [wrote |-> TRUE])
            ELSE /\ UNCHANGED <<messages, clock, slack>>
                 /\ Goto(hd, "catch", "db.update", [error |-> "db error"])
    /\ UNCHANGED <<ephemerals, views, env, banList>>

\* Update status to denied
DenyUpdate(hd) ==
    /\ hd.kind = "deny" /\ hd.pc = "update"
    /\ \E ok \in BOOLEAN :
         /\ Succeeds(ok)
         /\ IF ok
            THEN /\ messages' = SetStatus("denied", hd.messageId)
                 /\ clock' = clock + 1
                 /\ slack' = slack
                 /\ Goto(hd, "edit", "db.update", [wrote |-> TRUE])
            ELSE /\ UNCHANGED <<messages, clock, slack>>
                 /\ Goto(hd, "catch", "db.update", [error |-> "db error"])
    /\ UNCHANGED <<ephemerals, views, env, banList>>

\* Update the review message (deny)
DenyEdit(hd) ==
    /\ hd.kind = "deny" /\ hd.pc = "edit"
    /\ EditCard(hd, "denied")
    /\ UNCHANGED <<messages, clock, ephemerals, views, env, banList>>

\* The notice of the catch block
ErrorNotice(hd) ==
    Ephemeral(hd.kind, hd.channel, hd.user,
              <<IF hd.kind = "accept" THEN "Error accepting impression"
                                      ELSE "Error denying impression",
                hd.error>>)

\* DecisionCatch with a compensating rollback of the status
DecisionCatchRollback(hd) ==
    /\ hd.kind \in {"accept", "deny"} /\ hd.pc = "catch"
    /\ \E ok \in BOOLEAN :
         /\ Succeeds(ok)
         /\ Notify(ok, ErrorNotice(hd))
         /\ Goto(hd, "done", "chat.postEphemeral", [uncaught |-> ~ok])
    /\ messages' = IF hd.messageId \in DOMAIN messages
                   THEN [messages EXCEPT ![hd.messageId].status = "pending",
                                         ![hd.messageId].reviewed_at = NoTime]
                   ELSE messages
    /\ UNCHANGED <<clock, slack, views, env, banList>>

\* catch of either decision handler: the private notice to the acting reviewer;
\* a throw of the notice itself is caught by nothing.
DecisionCatch(hd) ==
    /\ hd.kind \in {"accept", "deny"} /\ hd.pc = "catch"
    /\ \E ok \in BOOLEAN :
         /\ Succeeds(ok)
         /\ Notify(ok, ErrorNotice(hd))
         /\ Goto(hd, "done", "chat.postEphemeral", [uncaught |-> ~ok])
    /\ UNCHANGED <<messages, clock, slack, views, env, banList>>

\* ------------------------------------------------------------------ system
Next ==
    \/ \E i \in Intents : ReplyShortcut(i[1], i[2])
    \/ \E v \in BagToSet(views), text \in Texts : ViewSubmission(v, text)
    \/ \E c \in Clicks, m \in DOMAIN slack : DecisionClick(c[1], c[2], m)
    \/ \E hd \in H : ViewInsert(hd)
    \/ \E hd \in H : ViewPostCard(hd)
    \/ \E hd \in H : ViewSetRef(hd)
    \/ \E hd \in H : ViewConfirm(hd)
    \/ \E hd \in H : ViewCatch(hd)
    \/ \E hd \in H : DecisionSelect(hd)
    \/ \E hd \in H : AcceptUpdate(hd)
    \/ \E hd \in H : AcceptRelay(hd)
    \/ \E hd \in H : AcceptEdit(hd)
    \/ \E hd \in H : DenyUpdate(hd)
    \/ \E hd \in H : DenyEdit(hd)
    \/ \E hd \in H : DecisionCatch(hd)

Spec == Init /\ [][Next]_vars

\* ------------------------------------------------------------- delete_me
\* Delete intents <<user, message>>: the admin on any message, an ordinary user on
\* the first one.
DeleteIntents == {<<"UJYDFQ2QL", m>> : m \in 1..(Len(Contexts) + 1 + MaxEvents)}
                   \cup {<<"U1", 1>>}

\* A user picks the "delete_me" shortcut on a message. ack() is called and not
\* awaited: the handler goes on while the acknowledgment is still in flight.
DeleteShortcut(u, m) ==
    /\ Arrives
    /\ Visible(m)
    /\ Start([Handler("delete", u, slack[m].channel, Ts(m), NoTs, NoTs, NULL)
                EXCEPT !.acked = FALSE])
    /\ UNCHANGED <<messages, clock, slack, ephemerals, views, failures, env, banList>>

\* The acknowledgment of a delete_me invocation completes.
AckCompletes(hd) ==
    /\ hd.kind = "delete" /\ ~hd.acked
    /\ handlers' = (handlers (-) SetToBag({hd})) (+) SetToBag({[hd EXCEPT !.acked = TRUE]})
    /\ UNCHANGED <<messages, clock, slack, ephemerals, views, failures, env, banList>>

\* The admin test, then chat.delete (admins) or the refusal notice (others);
\* nothing catches a throw. The platform deletes only messages of the bot.
DeleteBody(hd) ==
    LET m == Target(hd.ts) IN
    /\ hd.kind = "delete" /\ hd.pc = "body"
    /\ IF hd.user \in AdminUsers
       THEN \E ok \in BOOLEAN :
              /\ SucceedsIf(ok, Visible(m) /\ slack[m].author = "bot")
              /\ slack' = IF ok THEN [slack EXCEPT ![m].deleted = TRUE] ELSE slack
              /\ ephemerals' = ephemerals
              /\ IF ok THEN Goto(hd, "doned", "chat.delete", NoChange)
                       ELSE Goto(hd, "done", "chat.delete",
                                 [error |-> "platform error", uncaught |-> TRUE])
       ELSE \E ok \in BOOLEAN :
              /\ Succeeds(ok)
              /\ slack' = slack
              /\ Notify(ok, Ephemeral("delete", hd.channel, hd.user, <<"grrr stop bullying">>))
              /\ Goto(hd, "done", "chat.postEphemeral",
                      IF ok THEN NoChange
                            ELSE [error |-> "platform error", uncaught |-> TRUE])
    /\ UNCHANGED <<messages, clock, views, env, banList>>

\* The "doned" notice to the admin
DeleteDoned(hd) ==
    /\ hd.kind = "delete" /\ hd.pc = "doned"
    /\ \E ok \in BOOLEAN :
         /\ Succeeds(ok)
         /\ Notify(ok, Ephemeral("delete", hd.channel, hd.user, <<"doned">>))
         /\ Goto(hd, "done", "chat.postEphemeral",
                 IF ok THEN NoChange ELSE [error |-> "platform error", uncaught |-> TRUE])
    /\ UNCHANGED <<messages, clock, slack, views, env, banList>>

\* The system with the delete shortcut.
NextAll ==
    \/ Next
    \/ \E i \in DeleteIntents : DeleteShortcut(i[1], i[2])
    \/ \E hd \in H : AckCompletes(hd)
    \/ \E hd \in H : DeleteBody(hd)
    \/ \E hd \in H : DeleteDoned(hd)

SpecAll == Init /\ [][NextAll]_vars

\* ================================================================ properties
Rows == DOMAIN messages
Terminal == {"accepted", "denied"}
IsDecision(hd) == hd.kind \in {"accept", "deny"}

\* The messages relayed for row id
RelaysOf(id) ==
    {m \in DOMAIN slack : slack[m].by \in {"accept", "deny"} /\ slack[m].of = id}

\* The invocation hd takes a step
Stepped(hd) == CopiesIn(hd, handlers') < CopiesIn(hd, handlers)

\* C1: once a row's status is accepted or denied, no step changes its status or
\* its reviewed_at.
C1_StatusChangesAtMostOnce ==
    [][\A id \in Rows :
         messages[id].status \in Terminal =>
           /\ messages'[id].status = messages[id].status
           /\ messages'[id].reviewed_at = messages[id].reviewed_at]_vars

\* C2: of the decision handlers that read the same row while it was pending, at
\* most one writes the status.
C2_Winner(id, hd) ==
    /\ IsDecision(hd) /\ hd.messageId = id /\ hd.wrote
    /\ hd.rows[1].status = "pending"

C2_ExactlyOneWinner ==
    \A id \in Rows :
      BagCardinality([hd \in {x \in H : C2_Winner(id, x)} |-> handlers[hd]]) <= 1

\* C3: the text of a row is relayed at most once, and once the accept handlers
\* of an accepted row are finished it has been relayed.
C3_RelayedExactlyOnce ==
    \A id \in Rows :
      /\ Cardinality(RelaysOf(id)) <= 1
      /\ (/\ messages[id].status = "accepted"
          /\ \A hd \in H : (hd.kind = "accept" /\ hd.messageId = id) => hd.pc = "done")
         => Cardinality(RelaysOf(id)) >= 1

\* C4: every relay is posted into the channel and the thread stored on its row.
C4_RelayGoesToStoredPlace ==
    \A id \in Rows : \A m \in RelaysOf(id) :
      /\ slack[m].channel = messages[id].channel_id
      /\ slack[m].thread_ts = messages[id].thread_ts

\* C5: a deny-listed submitter has no row, no open modal, no form submission and
\* no review card, and each of their submit intents issues exactly the rejection
\* notice, which reaches them unless the call itself throws.
C5_BannedNeverSubmits ==
    \A u \in banList :
      /\ \A id \in Rows : messages[id].user_hash # md5(u)
      /\ \A v \in BagToSet(views) : v.user # u
      /\ \A m \in DOMAIN slack :
           (slack[m].by = "view" /\ slack[m].blocks.type = "pending")
             => slack[m].blocks.from # substring(md5(u), 0, 8)
      /\ \A hd \in H :
           hd.user = u =>
             /\ hd.kind = "reply"
             /\ hd.calls = <<"ack", "chat.postEphemeral">>
             /\ ~hd.uncaught =>
                  BagIn(Ephemeral("reply", hd.channel, u, <<"not allowed">>), ephemerals)

\* C5 witness: the deny-listed override identity has been refused from a channel
\* outside the permitted list while another submission was stored.
C5_Witness ==
    /\ Rows # {}
    /\ \E hd \in H :
         /\ hd.kind = "reply" /\ hd.user \in banList \cap OverrideUsers
         /\ hd.channel \notin PermittedChannels
         /\ BagIn(Ephemeral("reply", hd.channel, hd.user, <<"not allowed">>), ephemerals)

\* The channel a modal was opened from
ViewChannel(v) == Atom(Elem(split(v.private_metadata, "|"), 2))

IsPermitted(channel) == channel \in PermittedChannels \/ channel = env

\* C6 as stated: every row was created from a permitted channel.
C6_NonPermittedNeverCreates ==
    \A id \in Rows : IsPermitted(messages[id].channel_id)

\* C6 as amended: a row or a modal from a channel outside the permitted set
\* belongs to the override identity, and a refused intent issues only the
\* redirect notice.
C6_OnlyOverrideOutsidePermitted ==
    /\ \A id \in Rows :
         \/ IsPermitted(messages[id].channel_id)
         \/ \E o \in OverrideUsers : messages[id].user_hash = md5(o)
    /\ \A v \in BagToSet(views) : IsPermitted(ViewChannel(v)) \/ v.user \in OverrideUsers
    /\ \A hd \in H :
         (hd.kind = "reply" /\ ~IsPermitted(hd.channel) /\ hd.user \notin OverrideUsers)
           => hd.calls = <<"ack", "chat.postEphemeral">>

\* C6 witness: an ordinary user was redirected from a channel outside the
\* permitted set, from which the override identity has a stored row.
C6_Witness ==
    /\ \E hd \in H :
         /\ hd.kind = "reply" /\ ~IsPermitted(hd.channel) /\ hd.user \notin OverrideUsers
         /\ BagIn(Ephemeral("reply", hd.channel, hd.user, <<"post in channel">>), ephemerals)
    /\ \E id \in Rows : ~IsPermitted(messages[id].channel_id)

\* C7: reviewed_at is set exactly on the rows whose status is accepted or denied.
C7_ReviewedIffTerminal ==
    \A id \in Rows : (messages[id].reviewed_at # NoTime) <=> (messages[id].status \in Terminal)

\* C7 witness: a row inserted as pending has been denied, and reviewed_at holds
\* the time of that UPDATE.
C7_Witness ==
    \E id \in Rows :
      /\ messages[id].status = "denied"
      /\ messages[id].reviewed_at # NoTime
      /\ messages[id].reviewed_at > messages[id].created_at

\* C8: no message of the workspace was posted by a deny handler, a relayed row
\* has an accept handler that wrote it, and a deny handler issues only its
\* statements, the card edit and the private notice.
C8_DenyNeverPosts ==
    /\ \A m \in DOMAIN slack : slack[m].by # "deny"
    /\ \A id \in Rows :
         RelaysOf(id) # {} =>
           \E hd \in H : hd.kind = "accept" /\ hd.messageId = id /\ hd.wrote
    /\ \A hd \in H :
         hd.kind = "deny" =>
           \A i \in DOMAIN hd.calls :
             hd.calls[i] \in {"ack", "db.select", "db.update", "chat.update",
                              "chat.postEphemeral"}

\* C8 witness: a deny handler finished, the row denied and its card edited.
C8_Witness ==
    \E hd \in H :
      /\ hd.kind = "deny" /\ hd.pc = "done" /\ hd.wrote /\ hd.error = NULL
      /\ messages[hd.messageId].status = "denied"
      /\ slack[Target(hd.ts)].blocks.type = "denied"
      /\ RelaysOf(hd.messageId) = {}

\* C9: a decision whose button value names no row issues the SELECT and then only
\* the private notice, ends in the catch block, and when the SELECT answered, the
\* notice carries "Message not found" to the acting reviewer.
C9_NotFoundMutatesNothing ==
    \A hd \in H :
      (IsDecision(hd) /\ parseInt(hd.value) \notin Rows) =>
        /\ hd.pc \in {"body", "catch", "done"}
        /\ ~hd.wrote
        /\ \A i \in DOMAIN hd.calls :
             hd.calls[i] \in {"ack", "db.select", "chat.postEphemeral"}
        /\ hd.pc # "body" => hd.error \in {"Message not found", "db error"}
        /\ (hd.pc = "done" /\ ~hd.uncaught) => BagIn(ErrorNotice(hd), ephemerals)
        /\ RelaysOf(parseInt(hd.value)) = {}
        /\ slack[Target(hd.ts)].blocks.type = "pending"

\* C9 witness: a decision on the card of a missing row has finished and its
\* reviewer holds the not-found notice, with a row in the table.
C9_Witness ==
    /\ Rows # {}
    /\ \E hd \in H :
         /\ IsDecision(hd) /\ parseInt(hd.value) \notin Rows
         /\ hd.pc = "done" /\ hd.error = "Message not found"
         /\ BagIn(ErrorNotice(hd), ephemerals)

\* C10: a step of a decision handler that has written the status never writes
\* the table again; a step that throws changes neither the workspace nor the
\* notices, and the catch step only adds the notice to the acting reviewer.
C10_FailureKeepsCommit ==
    [][\A hd \in H :
         (IsDecision(hd) /\ hd.wrote /\ Stepped(hd)) =>
           /\ messages' = messages
           /\ (\E n \in BagToSet(handlers') :
                 n.pc = "catch" /\ CopiesIn(n, handlers') > CopiesIn(n, handlers))
                => (slack' = slack /\ ephemerals' = ephemerals)
           /\ hd.pc = "catch" =>
                /\ slack' = slack
                /\ \/ ephemerals' = ephemerals
                   \/ ephemerals' = ephemerals (+) SetToBag({ErrorNotice(hd)})]_vars

\* C10 witness: an accept handler wrote the status, a later call of it threw, the
\* reviewer was notified, and the row is still accepted.
C10_Witness ==
    \E hd \in H :
      /\ hd.kind = "accept" /\ hd.wrote /\ hd.pc = "done"
      /\ hd.error = "platform error"
      /\ BagIn(ErrorNotice(hd), ephemerals)
      /\ messages[hd.messageId].status = "accepted"
      /\ messages[hd.messageId].reviewed_at # NoTime

\* ---------------------------------------------------------------------- C11
\* C11: no handler invocation (submit-intent shortcut, delete shortcut, form
\* submission, accept, deny) ends with an uncaught error: every failure of a
\* database statement or platform call is caught inside the handler.
C11_NoUncaughtError ==
    \A hd \in H : ~hd.uncaught

\* ---------------------------------------------------------------------- C12
\* The call of the try block that threw in the form handler hd (hd.error set):
\* the last call logged, or the one before the notice of the catch block.
FailedCall(hd) ==
    hd.calls[IF hd.pc = "done" THEN Len(hd.calls) - 1 ELSE Len(hd.calls)]

\* The form handler hd created its row and then failed to post the review card
\* or to store the card's reference.
CardFailed(hd) ==
    /\ hd.kind = "view" /\ hd.error # NULL
    /\ FailedCall(hd) \in {"chat.postMessage", "db.update"}

\* C12: when posting the review card or storing its reference fails after the
\* row was created, the row is kept and stays pending with reviewed_at null, and
\* the handler issues the failure notice and no success confirmation.
C12_FailedSubmissionStaysPending ==
    \A hd \in H :
      CardFailed(hd) =>
        /\ hd.messageId \in Rows
        /\ messages[hd.messageId].status = "pending"
        /\ messages[hd.messageId].reviewed_at = NoTime
        /\ hd.pc = "done" =>
             /\ hd.calls[Len(hd.calls)] = "chat.postEphemeral"
             /\ Len(SelectSeq(hd.calls, LAMBDA c : c = "chat.postEphemeral")) = 1

\* ---------------------------------------------------------------------- C13
\* C13: no step deletes a row or changes its message, user_hash, thread_ts,
\* channel_id or created_at; a step of an accept or deny handler leaves
\* review_message_ts alone, and a step of the form handler leaves status and
\* reviewed_at alone.
C13_RowFrame ==
    [][\A id \in Rows :
         /\ id \in DOMAIN messages'
         /\ messages'[id].message = messages[id].message
         /\ messages'[id].user_hash = messages[id].user_hash
         /\ messages'[id].thread_ts = messages[id].thread_ts
         /\ messages'[id].channel_id = messages[id].channel_id
         /\ messages'[id].created_at = messages[id].created_at
         /\ \A hd \in H :
              Stepped(hd) =>
                /\ IsDecision(hd) =>
                     messages'[id].review_message_ts = messages[id].review_message_ts
                /\ hd.kind = "view" =>
                     /\ messages'[id].status = messages[id].status
                     /\ messages'[id].reviewed_at = messages[id].reviewed_at]_vars

\* A row that the review notifier and a decision handler have both written
C13_Witness ==
    \E id \in Rows :
      /\ messages[id].review_message_ts # NoTs
      /\ messages[id].status \in Terminal
      /\ messages[id].reviewed_at # NoTime

\* ---------------------------------------------------------------------- C14
\* The review cards posted for row id
CardsOf(id) ==
    {m \in DOMAIN slack : slack[m].by = "view" /\ slack[m].of = id}

\* C14: at most one review card is ever posted for a row, a stored
\* review_message_ts is the ts of that card, and once stored it is never
\* overwritten.
C14_OneCardOneReference ==
    /\ [](\A id \in Rows :
            /\ Cardinality(CardsOf(id)) <= 1
            /\ messages[id].review_message_ts # NoTs =>
                 \E m \in CardsOf(id) : messages[id].review_message_ts = Ts(m))
    /\ [][\A id \in Rows :
            messages[id].review_message_ts # NoTs =>
              messages'[id].review_message_ts = messages[id].review_message_ts]_vars

\* Two submissions, each with its own card and the reference to it stored
C14_Witness ==
    \E id1, id2 \in Rows :
      /\ id1 # id2
      /\ messages[id1].review_message_ts # NoTs
      /\ messages[id2].review_message_ts # NoTs
      /\ messages[id1].review_message_ts # messages[id2].review_message_ts

\* ---------------------------------------------------------------------- C15
\* What a reader of the thread sees of a posted message
Shown(msg) ==
    [f \in {"channel", "thread_ts", "author", "text", "blocks"} |-> msg[f]]

\* C15: every relayed message is the one the relay builds from the same row with
\* the fingerprint of any other submitter in its place, and it consists of the
\* stored text alone, with no block that could carry an identity or fingerprint.
C15_RelayIndependentOfSubmitter ==
    \A id \in Rows : \A m \in RelaysOf(id) :
      /\ \A u \in Submitters :
           Shown(slack[m]) =
             Shown(Relay([kind |-> slack[m].by, messageId |-> id],
                         [messages[id] EXCEPT !.user_hash = md5(u)]))
      /\ slack[m].text = messages[id].message
      /\ slack[m].blocks = NoBlocks
      /\ slack[m].author = "bot"

\* A relayed submission whose row holds the fingerprint of its submitter
C15_Witness ==
    \E id \in Rows :
      /\ RelaysOf(id) # {}
      /\ messages[id].user_hash = md5("U1")
      /\ md5("U1") # md5("UJYDFQ2QL")

\* ---------------------------------------------------------------------- C16
\* C16: in every handler invocation the acknowledgment has completed before any
\* database statement or platform call of the handler is made.
C16_AckBeforeAnyCall ==
    \A hd \in H : Len(hd.calls) > 1 => hd.acked

\* ---------------------------------------------------------------------- C17
\* The decision handler hd went through all its steps: status written, the text
\* relayed (accept), the card edited.
Completed(hd) ==
    /\ hd.error = NULL /\ hd.wrote
    /\ hd.calls = IF hd.kind = "accept"
                  THEN <<"ack", "db.select", "db.update", "chat.postMessage", "chat.update">>
                  ELSE <<"ack", "db.select", "db.update", "chat.update">>

\* C17: a decision handler that has finished either completed all its steps or
\* its reviewer was sent the private failure notice.
C17_FinishesCompleteOrNotified ==
    \A hd \in H :
      (IsDecision(hd) /\ hd.pc = "done") =>
        \/ Completed(hd)
        \/ BagIn(ErrorNotice(hd), ephemerals)

\* ---------------------------------------------------------------------- C18
\* The decision handlers invoked for row id
DecisionsOf(id) == {hd \in H : IsDecision(hd) /\ parseInt(hd.value) = id}

\* C18: once every decision handler of a row has finished without error, the
\* decision shown on the row's review card is the status stored in the row.
C18_CardShowsStoredStatus ==
    \A id \in Rows :
      (/\ DecisionsOf(id) # {}
       /\ \A hd \in DecisionsOf(id) : hd.pc = "done" /\ hd.error = NULL) =>
        \A m \in CardsOf(id) : slack[m].blocks.type = messages[id].status

\* ---------------------------------------------------------------------- C19
\* C19: a row whose text has been relayed has status accepted.
C19_RelayedIsAccepted ==
    \A id \in Rows : RelaysOf(id) # {} => messages[id].status = "accepted"

\* ---------------------------------------------------------------------- C20
\* The failure notice of the form handler hd
FailedNotice(hd) ==
    Ephemeral("view", hd.channelId, hd.user, <<"Failed to submit">>)

\* C20: a form handler that sent the "Failed to submit" notice left no visible
\* review card for its submission, and a form handler whose card was posted and
\* referenced attempted the success confirmation and sent no failure notice.
C20_FailureNoticeMeansNoCard ==
    \A hd \in H :
      (hd.kind = "view" /\ hd.pc = "done") =>
        /\ (hd.error # NULL /\ BagIn(FailedNotice(hd), ephemerals)) =>
             \A m \in CardsOf(hd.messageId) : ~Visible(m)
        /\ (/\ hd.messageId \in Rows
            /\ CardsOf(hd.messageId) # {}
            /\ messages[hd.messageId].review_message_ts # NoTs) =>
             /\ hd.error = NULL
             /\ hd.calls[Len(hd.calls)] = "chat.postEphemeral"

====
